---- MODULE Spec2Model ----
(***************************************************************************)
(* Model of the insurance return pipeline of                               *)
(* src/project/src/services/InsuranceService.ts: the per-player,           *)
(* per-trader registry of lost insured gear (insured), the profile's       *)
(* InsuredItems references, and the pending insurance returns stored in    *)
(* the profile by sendInsuredItems.                                        *)
(***************************************************************************)
EXTENDS Integers, Sequences, FiniteSets, TLC

(***************************************************************************)
(* Bounds of the model                                                     *)
(***************************************************************************)
\* Item ids are 1..NumItems.
NumItems == 2
\* getTimestamp() returns a value of 0..MaxNow.
MaxNow == 1
\* sendInsuredItems is called while the profile's insurance list would not
\* grow beyond MaxRecords entries.
MaxRecords == 3

(***************************************************************************)
(* Values                                                                  *)
(***************************************************************************)
\* A property that is not present on a JavaScript object / an undefined value.
Absent == "<absent>"

Players == {"p1", "p2"}
ItemIds == 1..NumItems

\* Trader ids; the traders database holds no dialogue for "Z".
Traders == {"X", "Y", "Z"}

\* pmcData.Inventory.equipment: id of the inventory root of a profile.
equipment == 0
\* Id of a container of the inventory that is not itself an insured item.
backpack == NumItems + 1

\* TimeUtil.oneHourAsSeconds
oneHourAsSeconds == 3600

\* Timestamps are kept in 1/TimestampScale seconds, so that the product with
\* the bonus factor 1 - |value|/100 stays an integer.
TimestampScale == 100

\* ---- configuration (ConfigServer, ConfigTypes.INSURANCE) ----
blacklistedEquipment == {"SecuredContainer"}

\* Value of insuranceConfig.returnTimeOverrideSeconds when the override is on.
OverrideSeconds == 7

\* ---- database (DatabaseServer.getTables().traders) ----
\* traders[traderId].dialogue: present or missing.
HasDialogue(traderId) == traderId # "Z"

\* traderHelper.getTrader(traderId).insurance
TraderInsurance(traderId) ==
    CASE traderId = "X" -> [min_return_hour |-> 1, max_return_hour |-> 2]
      [] traderId = "Y" -> [min_return_hour |-> 3, max_return_hour |-> 4]
      [] OTHER          -> [min_return_hour |-> 5, max_return_hour |-> 5]

(***************************************************************************)
(* Sequence helpers                                                        *)
(***************************************************************************)
RECURSIVE SeqFilter(_, _)
\* Array.prototype.filter with the predicate given as the set of kept values.
SeqFilter(s, keep) ==
    IF s = << >> THEN << >>
    ELSE IF Head(s) \in keep THEN << Head(s) >> \o SeqFilter(Tail(s), keep)
         ELSE SeqFilter(Tail(s), keep)

Range(s) == { s[i] : i \in DOMAIN s }

(***************************************************************************)
(* Items                                                                   *)
(***************************************************************************)
\* An optional property whose value is not a string: None when the property
\* is not present (or undefined), Some(v) when it holds v.
None == << >>
Some(v) == << v >>

\* upd of an item: {} has none of the properties the service touches.
EmptyUpd == [SpawnedInSession |-> None, Repairable |-> None, FaceShield |-> None]

\* An item: slotId is a string or Absent; location and upd are optional.
Item(id, parentId, slotId, location, upd) ==
    [_id |-> id, parentId |-> parentId, slotId |-> slotId, location |-> location, upd |-> upd]

pocketSlots == {"pocket1", "pocket2", "pocket3", "pocket4"}

\* updateSlotIdValue without the pocket slots: only a missing slotId and a
\* root-level parent reset the slotId.
updateSlotIdValueNoPockets(playerBaseInventoryEquipmentId, itemToReturn) ==
    IF itemToReturn.slotId = Absent \/ itemToReturn.parentId = playerBaseInventoryEquipmentId
    THEN [itemToReturn EXCEPT !.slotId = "hideout"]
    ELSE itemToReturn

\* updateSlotIdValue without the test of the root-level parent.
updateSlotIdValueNoRoot(playerBaseInventoryEquipmentId, itemToReturn) ==
    IF itemToReturn.slotId = Absent \/ itemToReturn.slotId \in pocketSlots
    THEN [itemToReturn EXCEPT !.slotId = "hideout"]
    ELSE itemToReturn

\* updateSlotIdValue: the item with its slotId reset to "hideout" when needed.
updateSlotIdValue(playerBaseInventoryEquipmentId, itemToReturn) ==
    LET a == IF itemToReturn.slotId = Absent \/ itemToReturn.slotId \in pocketSlots
             THEN [itemToReturn EXCEPT !.slotId = "hideout"]
             ELSE itemToReturn
    IN  IF a.parentId = playerBaseInventoryEquipmentId
        THEN [a EXCEPT !.slotId = "hideout"]
        ELSE a

\* Truthiness of an optional client-reported number (undefined and 0 are falsy).
Truthy(o) == o # None /\ o[1] # 0

\* getInsuredItemDetails that removes the location before it updates the
\* slotId.
getInsuredItemDetailsLocationFirst(playerBaseInventoryEquipmentId, preRaidItem, insuredItemFromClient) ==
    LET c0 == preRaidItem
        c1 == IF c0.upd = None THEN [c0 EXCEPT !.upd = Some(EmptyUpd)] ELSE c0
        c2 == IF c1.slotId = "hideout" /\ c1.location # None
              THEN [c1 EXCEPT !.location = None] ELSE c1
        c3 == updateSlotIdValue(playerBaseInventoryEquipmentId, c2)
        c4 == IF c3.upd[1].SpawnedInSession # None
              THEN [c3 EXCEPT !.upd[1].SpawnedInSession = Some(FALSE)] ELSE c3
        client == insuredItemFromClient
        c5 == IF client # None /\ Truthy(client[1].durability)
              THEN [c4 EXCEPT !.upd[1].Repairable =
                        Some([Durability    |-> client[1].durability,
                              MaxDurability |-> client[1].maxDurability])]
              ELSE c4
        c6 == IF client # None /\ Truthy(client[1].hits)
              THEN IF c5.upd[1].FaceShield = None
                   THEN [c5 EXCEPT !.upd[1].FaceShield = Some([Hits |-> client[1].hits])]
                   ELSE [c5 EXCEPT !.upd[1].FaceShield[1].Hits = client[1].hits]
              ELSE c5
    IN  c6

\* getInsuredItemDetails: the pre-raid item made ready for the return mail.
\* insuredItemFromClient is None or Some([durability, maxDurability, hits]).
getInsuredItemDetails(playerBaseInventoryEquipmentId, preRaidItem, insuredItemFromClient) ==
    LET c0 == preRaidItem   \* jsonUtil.clone
        c1 == IF c0.upd = None THEN [c0 EXCEPT !.upd = Some(EmptyUpd)] ELSE c0
        c2 == updateSlotIdValue(playerBaseInventoryEquipmentId, c1)
        c3 == IF c2.slotId = "hideout" /\ c2.location # None
              THEN [c2 EXCEPT !.location = None] ELSE c2
        c4 == IF c3.upd[1].SpawnedInSession # None
              THEN [c3 EXCEPT !.upd[1].SpawnedInSession = Some(FALSE)] ELSE c3
        client == insuredItemFromClient
        c5 == IF client # None /\ Truthy(client[1].durability)
              THEN [c4 EXCEPT !.upd[1].Repairable =
                        Some([Durability    |-> client[1].durability,
                              MaxDurability |-> client[1].maxDurability])]
              ELSE c4
        c6 == IF client # None /\ Truthy(client[1].hits)
              THEN IF c5.upd[1].FaceShield = None
                   THEN [c5 EXCEPT !.upd[1].FaceShield = Some([Hits |-> client[1].hits])]
                   ELSE [c5 EXCEPT !.upd[1].FaceShield[1].Hits = client[1].hits]
              ELSE c5
    IN  c6

RECURSIVE createItemHashTable(_)
\* createItemHashTable: id -> Some(the last item of the list with that id), or
\* None for an id that keys no entry.
createItemHashTable(items) ==
    IF items = << >> THEN [i \in ItemIds |-> None]
    ELSE LET n == Len(items)
         IN  [i \in ItemIds |->
                 IF items[n]._id = i THEN Some(items[n])
                 ELSE createItemHashTable(SubSeq(items, 1, n - 1))[i]]

(***************************************************************************)
(* State                                                                   *)
(***************************************************************************)
VARIABLES
    \* this.insured: per player None (no entry) or Some(buckets), the buckets
    \* being the player's trader arrays in insertion order of their keys,
    \* each [traderId, items].
    insured,
    \* pmcData.InsuredItems of each profile: sequence of [itemId, tid].
    InsuredItems,
    \* saveServer.getProfile(sessionID).insurance of each profile: sequence of
    \* [scheduledTime, traderId, messageContent, items, shared]; shared says
    \* that items is still the very array held by the registry bucket
    \* (sessionID, traderId), so that a write to the bucket shows in the record.
    insurance,
    \* Messages stored by dialogueHelper.addDialogueMessage, per player.
    dialogues,
    \* pmcData.Bonuses of each profile: sequence of [type, value].
    Bonuses,
    \* insuranceConfig.returnTimeOverrideSeconds
    returnTimeOverrideSeconds,
    \* The last call made on the service: its arguments, the state of the
    \* player before it, the values it read from the clock and the random
    \* source, and whether it threw.
    last

vars == << insured, InsuredItems, insurance, dialogues, Bonuses,
           returnTimeOverrideSeconds, last >>

(***************************************************************************)
(* The registry                                                            *)
(***************************************************************************)
insuranceExists(ins, sessionId) == ins[sessionId] # None

\* getInsurance: Some(buckets), or None (undefined) for a player without entry.
getInsurance(ins, sessionId) == ins[sessionId]

\* Index of the bucket of traderId among the buckets, 0 when there is none.
BucketIndex(buckets, traderId) ==
    IF \E i \in DOMAIN buckets : buckets[i].traderId = traderId
    THEN CHOOSE i \in DOMAIN buckets : buckets[i].traderId = traderId
    ELSE 0

\* getInsuranceItems: the bucket's items; None (undefined) without bucket.
\* Reading it for a player without entry throws (see the accessor actions).
getInsuranceItems(ins, sessionId, traderId) ==
    LET buckets == ins[sessionId][1]
        i == BucketIndex(buckets, traderId)
    IN  IF i = 0 THEN None ELSE Some(buckets[i].items)

\* resetInsurance that creates a missing entry and keeps an existing one.
resetInsuranceIfMissing(ins, sessionId) ==
    IF ins[sessionId] = None THEN [ins EXCEPT ![sessionId] = Some(<< >>)] ELSE ins

\* resetInsurance that empties the trader arrays of the entry and keeps
\* their keys.
resetInsuranceEmptyArrays(ins, sessionId) ==
    IF ins[sessionId] = None THEN [ins EXCEPT ![sessionId] = Some(<< >>)]
    ELSE [ins EXCEPT ![sessionId] =
             Some([k \in DOMAIN ins[sessionId][1] |->
                      [ins[sessionId][1][k] EXCEPT !.items = << >>]])]

\* resetInsurance that replaces the entry of every player.
resetInsuranceAllPlayers(ins, sessionId) == [p \in DOMAIN ins |-> Some(<< >>)]

resetInsurance(ins, sessionId) == [ins EXCEPT ![sessionId] = Some(<< >>)]

\* insuranceTraderArrayExists that never finds the trader array.
insuranceTraderArrayExistsNever(ins, sessionId, traderId) == FALSE

insuranceTraderArrayExists(ins, sessionId, traderId) ==
    BucketIndex(ins[sessionId][1], traderId) # 0

\* resetInsuranceTraderArray: insured[sessionId][traderId] = [] (a new array;
\* an existing key keeps its place in the enumeration order).
resetInsuranceTraderArray(ins, sessionId, traderId) ==
    LET buckets == ins[sessionId][1]
        i == BucketIndex(buckets, traderId)
        fresh == [traderId |-> traderId, items |-> << >>]
    IN  [ins EXCEPT ![sessionId] =
            Some(IF i = 0 THEN Append(buckets, fresh)
                 ELSE [buckets EXCEPT ![i] = fresh])]

addInsuranceItemToArray(ins, sessionId, traderId, itemToAdd) ==
    LET i == BucketIndex(ins[sessionId][1], traderId)
    IN  [ins EXCEPT ![sessionId][1][i].items = Append(@, itemToAdd)]

(***************************************************************************)
(* storeLostGear                                                           *)
(***************************************************************************)
\* offraidData.insurance?.find(x => x.id === itemId): Some(first report of
\* the item), None when there is no list or no report of the item.
FindClientReport(reports, itemId) ==
    IF reports = None THEN None
    ELSE LET list == reports[1]
             hits == { i \in DOMAIN list : list[i].id = itemId }
         IN  IF hits = {} THEN None
             ELSE Some(list[CHOOSE i \in hits : \A j \in hits : i <= j])

\* Qualifies with the last test written with && for ||.
QualifiesLostAndDied(insuredItem, preRaidGearHash, offRaidGearHash, playerDied) ==
    /\ preRaidGearHash[insuredItem.itemId] # None
    /\ preRaidGearHash[insuredItem.itemId][1].slotId \notin blacklistedEquipment
    /\ (offRaidGearHash[insuredItem.itemId] = None /\ playerDied)

\* Qualifies without the look-up of the post-raid inventory.
QualifiesIgnoringOffRaid(insuredItem, preRaidGearHash, offRaidGearHash, playerDied) ==
    /\ preRaidGearHash[insuredItem.itemId] # None
    /\ preRaidGearHash[insuredItem.itemId][1].slotId \notin blacklistedEquipment

\* Qualifies without the test of the blacklisted slots.
QualifiesNoBlacklist(insuredItem, preRaidGearHash, offRaidGearHash, playerDied) ==
    /\ preRaidGearHash[insuredItem.itemId] # None
    /\ (offRaidGearHash[insuredItem.itemId] = None \/ playerDied)

\* Does the first loop of storeLostGear keep this insured reference?
Qualifies(insuredItem, preRaidGearHash, offRaidGearHash, playerDied) ==
    /\ preRaidGearHash[insuredItem.itemId] # None
    /\ preRaidGearHash[insuredItem.itemId][1].slotId \notin blacklistedEquipment
    /\ (offRaidGearHash[insuredItem.itemId] = None \/ playerDied)

RECURSIVE EquipmentToSend(_, _, _, _, _, _)
\* The first loop of storeLostGear: equipmentToSendToPlayer for the
\* references refs, in their order.
EquipmentToSend(refs, preRaidGearHash, offRaidGearHash, reports, sessionID, playerDied) ==
    IF refs = << >> THEN << >>
    ELSE LET insuredItem == Head(refs)
             rest == EquipmentToSend(Tail(refs), preRaidGearHash, offRaidGearHash,
                                     reports, sessionID, playerDied)
         IN  IF Qualifies(insuredItem, preRaidGearHash, offRaidGearHash, playerDied)
             THEN << [itemToReturnToPlayer |->
                          getInsuredItemDetails(equipment,
                              preRaidGearHash[insuredItem.itemId][1],
                              FindClientReport(reports, insuredItem.itemId)),
                      traderId  |-> insuredItem.tid,
                      sessionID |-> sessionID] >> \o rest
             ELSE rest

\* addGearToSend without the removal of the processed reference.
RemoveInsuredItemNever(refs, id) == refs

\* addGearToSend that empties pmcData.InsuredItems.
RemoveInsuredItemAll(refs, id) == << >>

\* The references left by pmcData.InsuredItems.filter(item => item.itemId !== id).
RemoveInsuredItem(refs, id) ==
    SeqFilter(refs, { r \in Range(refs) : r.itemId # id })

\* addGearToSend on st = [ins, refs]: the registry and pmcData.InsuredItems.
addGearToSend(st, gear) ==
    LET i1 == IF ~insuranceExists(st.ins, gear.sessionID)
              THEN resetInsurance(st.ins, gear.sessionID) ELSE st.ins
        i2 == IF ~insuranceTraderArrayExists(i1, gear.sessionID, gear.traderId)
              THEN resetInsuranceTraderArray(i1, gear.sessionID, gear.traderId) ELSE i1
        i3 == addInsuranceItemToArray(i2, gear.sessionID, gear.traderId,
                                      gear.itemToReturnToPlayer)
    IN  [ins  |-> i3,
         refs |-> RemoveInsuredItem(st.refs, gear.itemToReturnToPlayer._id)]

RECURSIVE AddAllGear(_, _)
\* The second loop of storeLostGear.
AddAllGear(st, gears) ==
    IF gears = << >> THEN st
    ELSE AddAllGear(addGearToSend(st, Head(gears)), Tail(gears))

\* The bucket of traderId among Some(buckets)/None, as a sequence of items.
ItemsOf(entry, traderId) ==
    IF entry = None THEN << >>
    ELSE LET i == BucketIndex(entry[1], traderId)
         IN  IF i = 0 THEN << >> ELSE entry[1][i].items

\* Records whose items array is the array of a registry bucket see the
\* writes made to that bucket.
SyncShared(records, entry) ==
    [k \in DOMAIN records |->
        IF records[k].shared
        THEN [records[k] EXCEPT !.items = ItemsOf(entry, records[k].traderId)]
        ELSE records[k]]

\* storeLostGear(pmcData of sessionID, offraidData, preRaidGear, sessionID, playerDied)
storeLostGearResult(ins, refs, offRaidItems, reports, preRaidGear, sessionID, playerDied) ==
    AddAllGear([ins |-> ins, refs |-> refs],
               EquipmentToSend(refs, createItemHashTable(preRaidGear),
                               createItemHashTable(offRaidItems), reports,
                               sessionID, playerDied))

(***************************************************************************)
(* sendInsuredItems                                                        *)
(***************************************************************************)
\* Math.abs left out: the value with its sign.
AbsSigned(n) == n

Abs(n) == IF n < 0 THEN -n ELSE n

\* FindBonus that takes the first bonus of the list, whatever its type.
FindBonusAnyType(bonuses) ==
    IF bonuses = << >> THEN None ELSE Some(bonuses[1])

\* pmcData.Bonuses.find(b => b.type === "InsuranceReturnTime")
FindBonus(bonuses) ==
    LET hits == { i \in DOMAIN bonuses : bonuses[i].type = "InsuranceReturnTime" }
    IN  IF hits = {} THEN None
        ELSE Some(bonuses[CHOOSE i \in hits : \A j \in hits : i <= j])

\* randomUtil.getInt(min, max): the values the draw is taken from; the model
\* samples the range at its two ends.
getInt(min, max) == { min, max }

\* getInsuranceReturnTimestamp that does not read the override.
getInsuranceReturnTimestampNoOverride(override, bonuses, trader, now, randomisedReturnTimeSeconds) ==
    LET insuranceReturnTimeBonus == FindBonus(bonuses)
        bonusPercent == TimestampScale -
            (IF insuranceReturnTimeBonus # None
             THEN Abs(insuranceReturnTimeBonus[1].value) ELSE 0)
    IN  now * TimestampScale + randomisedReturnTimeSeconds * bonusPercent

\* getInsuranceReturnTimestamp, in 1/TimestampScale seconds. now is the value
\* of timeUtil.getTimestamp(); randomisedReturnTimeSeconds is the value drawn
\* by randomUtil.getInt (read only when the override is off).
getInsuranceReturnTimestamp(override, bonuses, trader, now, randomisedReturnTimeSeconds) ==
    IF override > 0
    THEN (now + override) * TimestampScale
    ELSE LET insuranceReturnTimeBonus == FindBonus(bonuses)
             bonusPercent == TimestampScale -
                 (IF insuranceReturnTimeBonus # None
                  THEN Abs(insuranceReturnTimeBonus[1].value) ELSE 0)
         IN  now * TimestampScale + randomisedReturnTimeSeconds * bonusPercent

traderMinReturnAsSeconds(trader) == trader.min_return_hour * oneHourAsSeconds
traderMaxReturnAsSeconds(trader) == trader.max_return_hour * oneHourAsSeconds

\* removeLocationProperty that leaves every item as it is.
removeLocationPropertyNone(insuredItems) == insuredItems

\* removeLocationProperty: the items of a bucket, each one whose parent is
\* not an item of the bucket with slotId "hideout" and no location.
removeLocationProperty(insuredItems) ==
    [k \in DOMAIN insuredItems |->
        IF \E j \in DOMAIN insuredItems : insuredItems[j]._id = insuredItems[k].parentId
        THEN insuredItems[k]
        ELSE [insuredItems[k] EXCEPT !.slotId = "hideout", !.location = None]]

RECURSIVE SendLoop(_, _, _, _, _, _, _)
\* The loop of sendInsuredItems from bucket k on. acc = [ins, records, msgs,
\* threw, draws]: the registry, the profile's insurance list, the stored
\* messages, whether the body threw, and the draws made so far.
SendLoop(acc, sessionID, k, override, bonuses, now, rnd) ==
    LET buckets == acc.ins[sessionID][1]
    IN  IF k > Len(buckets) \/ acc.threw THEN acc
        ELSE
          LET traderId == buckets[k].traderId
              traderBase == TraderInsurance(traderId)
              insuranceReturnTimestamp ==
                  getInsuranceReturnTimestamp(override, bonuses, traderBase, now, rnd[traderId])
              draws1 == IF override > 0 THEN acc.draws
                        ELSE Append(acc.draws, [traderId |-> traderId, value |-> rnd[traderId]])
          IN  IF ~HasDialogue(traderId)
              \* dialogueTemplates is undefined: reading insuranceStart throws
              THEN [acc EXCEPT !.threw = TRUE, !.draws = draws1]
              ELSE
                LET msg == [traderId |-> traderId, templateId |-> "insuranceStart",
                            type |-> "NPC_TRADER", text |-> ""]
                    ins1 == [acc.ins EXCEPT ![sessionID][1][k].items =
                                 removeLocationProperty(@)]
                    rec == [scheduledTime  |-> insuranceReturnTimestamp,
                            traderId       |-> traderId,
                            messageContent |-> [templateId |-> "insuranceFound",
                                                type |-> "INSURANCE_RETURN", text |-> ""],
                            items          |-> ins1[sessionID][1][k].items,
                            shared         |-> TRUE]
                IN  SendLoop([ins     |-> ins1,
                              records |-> SyncShared(Append(acc.records, rec), ins1[sessionID]),
                              msgs    |-> Append(acc.msgs, msg),
                              threw   |-> FALSE,
                              draws   |-> draws1],
                             sessionID, k + 1, override, bonuses, now, rnd)

\* sendInsuredItems: the loop, then resetInsurance unless the loop threw.
\* After the reset no record shares its items with the registry any more.
sendInsuredItemsResult(ins, records, msgs, sessionID, override, bonuses, now, rnd) ==
    LET start == [ins |-> ins, records |-> records, msgs |-> msgs,
                  threw |-> FALSE, draws |-> << >>]
        acc == IF getInsurance(ins, sessionID) = None THEN start
               ELSE SendLoop(start, sessionID, 1, override, bonuses, now, rnd)
    IN  IF acc.threw THEN acc
        ELSE [acc EXCEPT !.ins = resetInsurance(acc.ins, sessionID),
                         !.records = [k \in DOMAIN acc.records |->
                                         [acc.records[k] EXCEPT !.shared = FALSE]]]

(***************************************************************************)
(* Inputs                                                                  *)
(***************************************************************************)
\* The pre-raid snapshots of item id that the raid-exit calls are given:
\* in a pocket, in the secure container slot of the inventory root, or
\* mounted on an item of a lower id.
GearShapes(id) ==
    { Item(id, backpack, "pocket1", Some(1), None),
      Item(id, equipment, "SecuredContainer", None, None) }
    \cup { Item(id, parent, "mod_magazine", Some(2), None) : parent \in 1..(id - 1) }

RECURSIVE GearLists(_)
\* The item lists with one snapshot for each id of ids, in ascending id order.
GearLists(ids) ==
    IF ids = {} THEN { << >> }
    ELSE LET m == CHOOSE i \in ids : \A j \in ids : j <= i
         IN  { Append(g, it) : g \in GearLists(ids \ {m}), it \in GearShapes(m) }

\* The post-raid inventory holding the items of ids (only their ids are read).
OffRaidItems(ids) == { g \in GearLists(ids) : \A k \in DOMAIN g : g[k].slotId = "pocket1" }

RECURSIVE RefLists(_)
\* The InsuredItems lists over the item ids of ids, in ascending id order:
\* an item id has at most one reference.
RefLists(ids) ==
    IF ids = {} THEN { << >> }
    ELSE LET m == CHOOSE i \in ids : \A j \in ids : j <= i
         IN  { Append(r, [itemId |-> m, tid |-> t]) : r \in RefLists(ids \ {m}), t \in Traders }

\* pmcData.Bonuses of a profile that holds an insurance return time bonus.
ReturnTimeBonus ==
    << [type |-> "StashSize", value |-> 2], [type |-> "InsuranceReturnTime", value |-> -20] >>

\* No call was made yet.
NoCall ==
    [op |-> "none", sessionID |-> "p1", playerDied |-> FALSE,
     preRaidGear |-> << >>, offRaidItems |-> << >>,
     before |-> [insured |-> None, InsuredItems |-> << >>,
                 insurance |-> << >>, dialogues |-> << >>],
     now |-> 0, draws |-> << >>, threw |-> FALSE]

BeforeCall(p) ==
    [insured |-> insured[p], InsuredItems |-> InsuredItems[p],
     insurance |-> insurance[p], dialogues |-> dialogues[p]]

(***************************************************************************)
(* The state machine                                                       *)
(***************************************************************************)
Init ==
    /\ insured = [p \in Players |-> None]
    /\ InsuredItems \in [Players -> UNION { RefLists(ids) : ids \in SUBSET ItemIds }]
    /\ InsuredItems["p2"] = << >>
    /\ insurance = [p \in Players |-> << >>]
    /\ dialogues = [p \in Players |-> << >>]
    /\ Bonuses = [p \in Players |-> IF p = "p1" THEN ReturnTimeBonus ELSE << >>]
    /\ returnTimeOverrideSeconds \in {0, OverrideSeconds}
    /\ last = NoCall

\* A raid exit of player sessionID: storeLostGear. The call reads of
\* preRaidGear and of the post-raid inventory only the entries of the items
\* the profile holds a reference to, so the gear is drawn over those ids.
StoreLostGear(sessionID) ==
    LET insuredIds == { r.itemId : r \in Range(InsuredItems[sessionID]) }
    IN
    \E preIds \in SUBSET insuredIds :
    \E offIds \in SUBSET preIds :
    \E preRaidGear \in GearLists(preIds) :
    \E offRaidItems \in OffRaidItems(offIds) :
    \E playerDied \in BOOLEAN :
        LET res == storeLostGearResult(insured, InsuredItems[sessionID], offRaidItems,
                                       None, preRaidGear, sessionID, playerDied)
        IN  /\ insured' = res.ins
            /\ InsuredItems' = [InsuredItems EXCEPT ![sessionID] = res.refs]
            /\ insurance' = [insurance EXCEPT ![sessionID] =
                                SyncShared(@, res.ins[sessionID])]
            /\ last' = [NoCall EXCEPT !.op = "storeLostGear", !.sessionID = sessionID,
                                      !.playerDied = playerDied,
                                      !.preRaidGear = preRaidGear,
                                      !.offRaidItems = offRaidItems,
                                      !.before = BeforeCall(sessionID)]
            /\ UNCHANGED << dialogues, Bonuses, returnTimeOverrideSeconds >>

\* The values randomUtil.getInt may return to the calls made for traders.
DrawsFor(traders) ==
    LET range(t) == getInt(traderMinReturnAsSeconds(TraderInsurance(t)),
                           traderMaxReturnAsSeconds(TraderInsurance(t)))
    IN  { f \in [traders -> UNION { range(t) : t \in traders }] :
            \A t \in traders : f[t] \in range(t) }

\* The traders that key a bucket of the player.
BucketTraders(entry) ==
    IF entry = None THEN {} ELSE { entry[1][k].traderId : k \in DOMAIN entry[1] }

\* sendInsuredItems(pmcData of sessionID, sessionID, mapId). A call that
\* throws leaves the state as the loop left it.
SendInsuredItems(sessionID) ==
    /\ Len(insurance[sessionID]) + Cardinality(BucketTraders(insured[sessionID])) <= MaxRecords
    /\ \E now \in (IF BucketTraders(insured[sessionID]) = {} THEN {0} ELSE 0..MaxNow) :
       \E rnd \in DrawsFor(BucketTraders(insured[sessionID])) :
        LET res == sendInsuredItemsResult(insured, insurance[sessionID], dialogues[sessionID],
                       sessionID, returnTimeOverrideSeconds, Bonuses[sessionID], now, rnd)
        IN  /\ insured' = res.ins
            /\ insurance' = [insurance EXCEPT ![sessionID] = res.records]
            /\ dialogues' = [dialogues EXCEPT ![sessionID] = res.msgs]
            /\ last' = [NoCall EXCEPT !.op = "sendInsuredItems", !.sessionID = sessionID,
                                      !.before = BeforeCall(sessionID),
                                      !.now = now, !.draws = res.draws,
                                      !.threw = res.threw]
            /\ UNCHANGED << InsuredItems, Bonuses, returnTimeOverrideSeconds >>

\* The raid exits of one player.
Next ==
    \/ StoreLostGear("p1")
    \/ SendInsuredItems("p1")

Spec == Init /\ [][Next]_vars

\* The raid exits of one player made as the raid-end handler makes them:
\* storeLostGear, then sendInsuredItems, repeated.
RaidExitNext ==
    \/ last.op # "storeLostGear" /\ StoreLostGear("p1")
    \/ last.op = "storeLostGear" /\ SendInsuredItems("p1")

SpecRaidExits == Init /\ [][RaidExitNext]_vars

(***************************************************************************)
(* Reading the state                                                       *)
(***************************************************************************)
\* The number of items of id in a sequence of items.
CountOf(items, id) == Cardinality({ k \in DOMAIN items : items[k]._id = id })

IdsOf(items) == { items[k]._id : k \in DOMAIN items }

IsPrefix(s, t) == Len(s) <= Len(t) /\ SubSeq(t, 1, Len(s)) = s

\* The records appended to the profile's insurance list by the last call.
NewRecords == SubSeq(insurance[last.sessionID], Len(last.before.insurance) + 1,
                     Len(insurance[last.sessionID]))

\* The messages stored by the last call.
NewMessages == SubSeq(dialogues[last.sessionID], Len(last.before.dialogues) + 1,
                      Len(dialogues[last.sessionID]))

InPreRaidGear(id) == \E k \in DOMAIN last.preRaidGear : last.preRaidGear[k]._id = id
InOffRaidItems(id) == \E k \in DOMAIN last.offRaidItems : last.offRaidItems[k]._id = id
PreRaidSlot(id) ==
    (CHOOSE it \in Range(last.preRaidGear) : it._id = id).slotId

\* The references held by the profile when the last call began.
RefsBefore == Range(last.before.InsuredItems)

Stored == last.op = "storeLostGear"
Sent == last.op = "sendInsuredItems"
Returned == Sent /\ ~last.threw

\* The last call, a storeLostGear, appended item id to the bucket of tid.
AddedTo(id, tid) ==
    /\ IsPrefix(ItemsOf(last.before.insured, tid), ItemsOf(insured[last.sessionID], tid))
    /\ CountOf(ItemsOf(insured[last.sessionID], tid), id)
         = CountOf(ItemsOf(last.before.insured, tid), id) + 1

\* The last call added item id to no bucket of the player.
AddedNowhere(id) ==
    \A t \in Traders :
        CountOf(ItemsOf(insured[last.sessionID], t), id)
          = CountOf(ItemsOf(last.before.insured, t), id)

(***************************************************************************)
(* C1                                                                      *)
(***************************************************************************)
\* The raid exit of the scenario: reference r is for an item that was in
\* slot pocket1 before the raid and is gone after it, insured with a trader
\* that has dialogue templates; the player survived, was idle, and no other
\* insured item was lost.
C1_Scenario(r) ==
    /\ Stored /\ ~last.playerDied
    /\ r \in RefsBefore /\ HasDialogue(r.tid)
    /\ InPreRaidGear(r.itemId) /\ PreRaidSlot(r.itemId) = "pocket1"
    /\ ~InOffRaidItems(r.itemId)
    /\ BucketTraders(last.before.insured) = {}
    /\ \A o \in RefsBefore \ {r} : ~InPreRaidGear(o.itemId) \/ InOffRaidItems(o.itemId)

\* What the scenario's storeLostGear leaves: one bucket, of trader tid, with
\* the one item id in slot hideout, and no reference to id in the profile.
C1_Resolved(entry, refs, id, tid) ==
    /\ entry # None /\ Len(entry[1]) = 1 /\ entry[1][1].traderId = tid
    /\ Len(entry[1][1].items) = 1
    /\ entry[1][1].items[1]._id = id /\ entry[1][1].items[1].slotId = "hideout"
    /\ \A o \in Range(refs) : o.itemId # id

\* C1: end-to-end scenario. After storeLostGear for an idle, surviving player
\* whose only lost insured item A was in pocket1 and is insured with X, the
\* registry holds exactly A (slot hideout) for X and the reference is gone;
\* and sendInsuredItems called in that state returns having appended exactly
\* one InsuranceRecord, for X, whose items hold A with slotId hideout, the
\* profile still holding no reference to A.
C1_Scenario_OneRecord ==
    /\ \A r \in RefsBefore :
         C1_Scenario(r) =>
            C1_Resolved(insured[last.sessionID], InsuredItems[last.sessionID], r.itemId, r.tid)
    /\ \A id \in ItemIds, tid \in Traders :
         (Sent /\ HasDialogue(tid)
               /\ C1_Resolved(last.before.insured, last.before.InsuredItems, id, tid))
         => /\ ~last.threw
            /\ Len(NewRecords) = 1
            /\ NewRecords[1].traderId = tid
            /\ \E k \in DOMAIN NewRecords[1].items :
                  NewRecords[1].items[k]._id = id /\ NewRecords[1].items[k].slotId = "hideout"
            /\ \A o \in Range(InsuredItems[last.sessionID]) : o.itemId # id

\* The scenario has run to its end: one record, for a trader with templates,
\* holding an item that was insured and is no longer.
C1_Witness ==
    /\ Returned
    /\ \E id \in ItemIds, tid \in Traders :
          /\ C1_Resolved(last.before.insured, last.before.InsuredItems, id, tid)
          /\ Len(NewRecords) = 1 /\ NewRecords[1].traderId = tid
          /\ Len(last.before.insurance) = 0

(***************************************************************************)
(* C2                                                                      *)
(***************************************************************************)
\* C2 as stated: every insured reference whose item is in the pre-raid gear
\* and not in the post-raid inventory has its item appended to the bucket of
\* its trader by storeLostGear, whether or not the player died.
C2_LostIsStored_AnySlot ==
    Stored =>
      \A r \in RefsBefore :
        (InPreRaidGear(r.itemId) /\ ~InOffRaidItems(r.itemId)) => AddedTo(r.itemId, r.tid)

\* C2 as amended: every insured reference whose item is in the pre-raid gear
\* in a slot that is not blacklisted, and not in the post-raid inventory, has
\* its item appended to the bucket of its trader by storeLostGear, whether
\* or not the player died.
C2_LostIsStored ==
    Stored =>
      \A r \in RefsBefore :
        (/\ InPreRaidGear(r.itemId) /\ ~InOffRaidItems(r.itemId)
         /\ PreRaidSlot(r.itemId) \notin blacklistedEquipment)
        => AddedTo(r.itemId, r.tid)

\* A surviving player lost an insured item and storeLostGear stored it.
C2_Witness ==
    /\ Stored /\ ~last.playerDied
    /\ \E r \in RefsBefore :
         /\ InPreRaidGear(r.itemId) /\ ~InOffRaidItems(r.itemId)
         /\ PreRaidSlot(r.itemId) \notin blacklistedEquipment
         /\ AddedTo(r.itemId, r.tid)

(***************************************************************************)
(* C3                                                                      *)
(***************************************************************************)
\* C3: when the player did not die, storeLostGear adds to no bucket of the
\* player the item of an insured reference that is in both the pre-raid gear
\* and the post-raid inventory.
C3_KeptIsNotStored ==
    (Stored /\ ~last.playerDied) =>
      \A r \in RefsBefore :
        (InPreRaidGear(r.itemId) /\ InOffRaidItems(r.itemId)) => AddedNowhere(r.itemId)

\* A surviving player kept an insured item of a slot that is not blacklisted
\* while losing another one, which was stored.
C3_Witness ==
    /\ Stored /\ ~last.playerDied
    /\ \E r, o \in RefsBefore :
         /\ InPreRaidGear(r.itemId) /\ InOffRaidItems(r.itemId)
         /\ PreRaidSlot(r.itemId) \notin blacklistedEquipment
         /\ AddedNowhere(r.itemId)
         /\ AddedTo(o.itemId, o.tid)

(***************************************************************************)
(* C4                                                                      *)
(***************************************************************************)
\* C4: storeLostGear adds to no bucket the item of an insured reference
\* whose pre-raid slot is blacklisted, whether the player died or not and
\* whether the item is in the post-raid inventory or not; and the records
\* appended by sendInsuredItems hold only items the registry held, so none
\* of them holds an item that was not added.
C4_BlacklistedIsNeverStored ==
    /\ Stored =>
         \A r \in RefsBefore :
           (InPreRaidGear(r.itemId) /\ PreRaidSlot(r.itemId) \in blacklistedEquipment)
           => AddedNowhere(r.itemId)
    /\ Sent =>
         \A k \in DOMAIN NewRecords :
           IdsOf(NewRecords[k].items)
             \subseteq IdsOf(ItemsOf(last.before.insured, NewRecords[k].traderId))

\* A player died without the blacklisted insured item, which was not stored,
\* while another insured item was.
C4_Witness ==
    /\ Stored /\ last.playerDied
    /\ \E r, o \in RefsBefore :
         /\ InPreRaidGear(r.itemId) /\ ~InOffRaidItems(r.itemId)
         /\ PreRaidSlot(r.itemId) \in blacklistedEquipment
         /\ AddedNowhere(r.itemId)
         /\ AddedTo(o.itemId, o.tid)

(***************************************************************************)
(* C5                                                                      *)
(***************************************************************************)
\* C5: when sendInsuredItems returns, the registry holds an entry without
\* any bucket for the player, whatever buckets it held before the call.
C5_ReturnedIsIdle ==
    Returned =>
      /\ insured[last.sessionID] = Some(<< >>)
      /\ \A t \in Traders : ItemsOf(insured[last.sessionID], t) = << >>

\* sendInsuredItems returned for a player who had two buckets.
C5_Witness ==
    /\ Returned
    /\ Cardinality(BucketTraders(last.before.insured)) = 2
    /\ BucketTraders(insured[last.sessionID]) = {}

(***************************************************************************)
(* C6                                                                      *)
(***************************************************************************)
\* The buckets the player had when the last call began.
BucketsBefore == IF last.before.insured = None THEN << >> ELSE last.before.insured[1]

\* The draw made by the last call for traderId (0 when it made none).
DrawOf(traderId) ==
    IF \E k \in DOMAIN last.draws : last.draws[k].traderId = traderId
    THEN (CHOOSE d \in Range(last.draws) : d.traderId = traderId).value
    ELSE 0

\* The last call, a sendInsuredItems, appended exactly one record and stored
\* exactly one searching message for bucket b: the record is keyed by the
\* bucket's trader, holds the bucket's items, in their order, and is
\* scheduled at the return timestamp of that trader.
OneRecordFor(b) ==
    /\ Cardinality({ k \in DOMAIN NewRecords : NewRecords[k].traderId = b.traderId }) = 1
    /\ Cardinality({ k \in DOMAIN NewMessages : NewMessages[k].traderId = b.traderId }) = 1
    /\ \A k \in DOMAIN NewMessages :
          NewMessages[k].traderId = b.traderId =>
             NewMessages[k].templateId = "insuranceStart" /\ NewMessages[k].text = ""
    /\ \A k \in DOMAIN NewRecords :
          NewRecords[k].traderId = b.traderId =>
             /\ [i \in DOMAIN NewRecords[k].items |-> NewRecords[k].items[i]._id]
                  = [i \in DOMAIN b.items |-> b.items[i]._id]
             /\ NewRecords[k].scheduledTime =
                  getInsuranceReturnTimestamp(returnTimeOverrideSeconds,
                      Bonuses[last.sessionID], TraderInsurance(b.traderId),
                      last.now, DrawOf(b.traderId))

\* C6: sendInsuredItems appends exactly one InsuranceRecord and stores
\* exactly one searching message for each bucket the player has at the time
\* of the call whose trader has dialogue templates, with the bucket's key,
\* the bucket's items and the return timestamp of that trader; and nothing
\* else is appended.
C6_OneRecordPerBucket ==
    Sent =>
      /\ \A k \in DOMAIN BucketsBefore :
            HasDialogue(BucketsBefore[k].traderId) => OneRecordFor(BucketsBefore[k])
      /\ \A k \in DOMAIN NewRecords :
            NewRecords[k].traderId \in BucketTraders(last.before.insured)

\* The same for the calls that return.
C6_OneRecordPerBucket_Returned ==
    Returned =>
      /\ \A k \in DOMAIN BucketsBefore : OneRecordFor(BucketsBefore[k])
      /\ Len(NewRecords) = Len(BucketsBefore)
      /\ Len(NewMessages) = Len(BucketsBefore)

(***************************************************************************)
(* C7                                                                      *)
(***************************************************************************)
\* C7: a sendInsuredItems call made while a bucket of the player belongs to
\* a trader without dialogue templates does not fail, appends no record
\* and stores no message for that trader, appends one record for each other
\* bucket, and leaves the player without bucket.
C7_MissingDialogueIsSkipped ==
    (Sent /\ \E k \in DOMAIN BucketsBefore : ~HasDialogue(BucketsBefore[k].traderId))
    => /\ ~last.threw
       /\ \A k \in DOMAIN NewRecords : HasDialogue(NewRecords[k].traderId)
       /\ \A k \in DOMAIN NewMessages : HasDialogue(NewMessages[k].traderId)
       /\ \A k \in DOMAIN BucketsBefore :
             HasDialogue(BucketsBefore[k].traderId) => OneRecordFor(BucketsBefore[k])
       /\ BucketTraders(insured[last.sessionID]) = {}

(***************************************************************************)
(* C8                                                                      *)
(***************************************************************************)
\* Reference r qualified in the last call, a storeLostGear.
QualifiedRef(r) ==
    /\ InPreRaidGear(r.itemId)
    /\ PreRaidSlot(r.itemId) \notin blacklistedEquipment
    /\ (~InOffRaidItems(r.itemId) \/ last.playerDied)

\* C8: every record of every insurance list has at least one item; the
\* records appended and the messages stored by sendInsuredItems are for
\* traders that had a bucket; a bucket is never empty; storeLostGear creates
\* buckets only for the traders of references that qualified in the call;
\* and a sendInsuredItems that returns leaves no bucket.
C8_NoEmptyRecord ==
    /\ \A p \in Players : \A k \in DOMAIN insurance[p] : insurance[p][k].items # << >>
    /\ \A p \in Players : \A t \in BucketTraders(insured[p]) : ItemsOf(insured[p], t) # << >>
    /\ Sent =>
         /\ \A k \in DOMAIN NewRecords :
               NewRecords[k].traderId \in BucketTraders(last.before.insured)
         /\ \A k \in DOMAIN NewMessages :
               NewMessages[k].traderId \in BucketTraders(last.before.insured)
    /\ Stored =>
         BucketTraders(insured[last.sessionID]) \ BucketTraders(last.before.insured)
           \subseteq { r.tid : r \in { q \in RefsBefore : QualifiedRef(q) } }
    /\ Returned => BucketTraders(insured[last.sessionID]) = {}

\* sendInsuredItems returned with one record while the profile still holds
\* a reference insured with another trader, which got neither record nor
\* message.
C8_Witness ==
    /\ Returned /\ Len(NewRecords) = 1 /\ Len(NewMessages) = 1
    /\ \E r \in Range(InsuredItems[last.sessionID]) :
          /\ r.tid # NewRecords[1].traderId
          /\ HasDialogue(r.tid)

(***************************************************************************)
(* C9                                                                      *)
(***************************************************************************)
RECURSIVE TotalCount(_, _)
\* The number of items of id in the items of the elements of holders
\* (records or buckets), all taken together.
TotalCount(holders, id) ==
    IF holders = << >> THEN 0
    ELSE CountOf(Head(holders).items, id) + TotalCount(Tail(holders), id)

\* The number of times item id is held by the records of player p.
TimesReturned(p, id) == TotalCount(insurance[p], id)

\* storeLostGear removes the reference of every item it adds to the registry.
C9_StoredIsConsumed ==
    Stored =>
      \A r \in RefsBefore :
        AddedTo(r.itemId, r.tid) =>
           \A o \in Range(InsuredItems[last.sessionID]) : o.itemId # r.itemId

\* C9: storeLostGear removes the reference of every item it adds to the
\* registry, and an item id is held at most once by the records of a
\* player's insurance list, all records taken together.
C9_ConsumedOnce ==
    /\ C9_StoredIsConsumed
    /\ \A p \in Players : \A id \in ItemIds : TimesReturned(p, id) <= 1

(***************************************************************************)
(* C10                                                                     *)
(***************************************************************************)
\* The number of times item id is held by the buckets of player p.
TimesStored(p, id) ==
    TotalCount(IF insured[p] = None THEN << >> ELSE insured[p][1], id)

\* Item ids are unique within each profile's InsuredItems.
UniqueRefs ==
    \A p \in Players : \A i, j \in DOMAIN InsuredItems[p] :
        InsuredItems[p][i].itemId = InsuredItems[p][j].itemId => i = j

\* C10: item ids are unique within each InsuredItems list, and no item id is
\* held twice by the buckets of a player, be it in two buckets or in one.
C10_StoredOnce ==
    /\ UniqueRefs
    /\ \A p \in Players : \A id \in ItemIds : TimesStored(p, id) <= 1

\* A second storeLostGear before any flush added an item to a registry that
\* already held one, in another bucket.
C10_Witness ==
    /\ Stored
    /\ BucketTraders(last.before.insured) # {}
    /\ Cardinality(BucketTraders(insured[last.sessionID])) = 2
    /\ \E r \in RefsBefore : AddedTo(r.itemId, r.tid)

(***************************************************************************)
(* C11                                                                     *)
(***************************************************************************)
\* The buckets the last call, a storeLostGear, wrote an item to.
WrittenBuckets ==
    { t \in Traders :
        ItemsOf(insured[last.sessionID], t) # ItemsOf(last.before.insured, t) }

getIntOutcomes(min, max) == min..max

\* The pmcData.Bonuses lists the calls are made with.
BonusLists ==
    { << >>,
      << [type |-> "StashSize", value |-> 2] >>,
      << [type |-> "InsuranceReturnTime", value |-> 0] >>,
      ReturnTimeBonus,
      << [type |-> "InsuranceReturnTime", value |-> 30], [type |-> "StashSize", value |-> 2] >>,
      << [type |-> "InsuranceReturnTime", value |-> 20] >>,
      << [type |-> "InsuranceReturnTime", value |-> -100] >>,
      << [type |-> "InsuranceReturnTime", value |-> 150] >> }

\* The draws getInsuranceReturnTimestamp makes: none when the override is on
\* (it returns before the call of randomUtil.getInt).
ReturnTimestampDraws(override, randomisedReturnTimeSeconds) ==
    IF override > 0 THEN << >> ELSE << randomisedReturnTimeSeconds >>

\* A call of getInsuranceReturnTimestamp that is about to be made: the trader,
\* the value of the clock and the value the random source would give.
ReturnTimeCalls(override) ==
    { [op |-> "none", sessionID |-> "p1", traderId |-> t, now |-> now, rnd |-> rnd,
       draws |-> << >>, result |-> 0] :
        t \in Traders, now \in 0..MaxNow,
        rnd \in UNION { IF override > 0 THEN {0}
                        ELSE getIntOutcomes(traderMinReturnAsSeconds(TraderInsurance(u)),
                                            traderMaxReturnAsSeconds(TraderInsurance(u)))
                        : u \in Traders } }

InitReturnTime ==
    /\ insured = [p \in Players |-> None]
    /\ InsuredItems = [p \in Players |-> << >>]
    /\ insurance = [p \in Players |-> << >>]
    /\ dialogues = [p \in Players |-> << >>]
    /\ Bonuses \in [Players -> BonusLists]
    /\ Bonuses["p2"] = << >>
    /\ returnTimeOverrideSeconds \in {0, OverrideSeconds}
    /\ last \in ReturnTimeCalls(returnTimeOverrideSeconds)
    /\ \/ returnTimeOverrideSeconds > 0
       \/ last.rnd \in getIntOutcomes(traderMinReturnAsSeconds(TraderInsurance(last.traderId)),
                                       traderMaxReturnAsSeconds(TraderInsurance(last.traderId)))

\* getInsuranceReturnTimestamp(pmcData of sessionID, trader)
GetInsuranceReturnTimestamp(sessionID) ==
    /\ last.op = "none"
    /\ last.sessionID = sessionID
    /\ last' = [last EXCEPT
                   !.op = "getInsuranceReturnTimestamp",
                   !.draws = ReturnTimestampDraws(returnTimeOverrideSeconds, last.rnd),
                   !.result = getInsuranceReturnTimestamp(returnTimeOverrideSeconds,
                                  Bonuses[sessionID], TraderInsurance(last.traderId),
                                  last.now, last.rnd)]
    /\ UNCHANGED << insured, InsuredItems, insurance, dialogues, Bonuses,
                    returnTimeOverrideSeconds >>

NextReturnTime == GetInsuranceReturnTimestamp("p1")

SpecReturnTime == InitReturnTime /\ [][NextReturnTime]_vars

\* getInsuranceReturnTimestamp has returned.
ReturnTimeComputed == last.op = "getInsuranceReturnTimestamp"

(***************************************************************************)
(* C12                                                                     *)
(***************************************************************************)
\* C12: with returnTimeOverrideSeconds = N > 0, getInsuranceReturnTimestamp
\* returns exactly now + N, whatever the profile's bonuses and the trader's
\* return hours are, and draws no random value.
C12_OverrideIsExact ==
    (ReturnTimeComputed /\ returnTimeOverrideSeconds > 0) =>
        /\ last.result = (last.now + returnTimeOverrideSeconds) * TimestampScale
        /\ last.draws = << >>

\* The override was used for a profile with a return time bonus and a
\* trader with a range of return hours, at a clock value other than 0.
C12_Witness ==
    /\ ReturnTimeComputed /\ returnTimeOverrideSeconds > 0
    /\ FindBonus(Bonuses[last.sessionID]) # None
    /\ FindBonus(Bonuses[last.sessionID])[1].value # 0
    /\ last.traderId = "Y" /\ last.now > 0

(***************************************************************************)
(* C13                                                                     *)
(***************************************************************************)
\* The profile holds no return time bonus, or one of value 0.
NoReturnTimeBonus(bonuses) ==
    \A i \in DOMAIN bonuses :
        bonuses[i].type = "InsuranceReturnTime" => bonuses[i].value = 0

\* C13: with the override off and no bonus (or a bonus of value 0) the
\* returned timestamp t satisfies
\* now + min_return_hour*3600 <= t <= now + max_return_hour*3600,
\* for every value the random draw can give.
C13_WithinTraderRange ==
    (ReturnTimeComputed /\ returnTimeOverrideSeconds = 0
        /\ NoReturnTimeBonus(Bonuses[last.sessionID])) =>
        LET trader == TraderInsurance(last.traderId)
        IN  /\ (last.now + trader.min_return_hour * oneHourAsSeconds) * TimestampScale
                  <= last.result
            /\ last.result
                  <= (last.now + trader.max_return_hour * oneHourAsSeconds) * TimestampScale

\* A draw strictly inside the trader's range was used for a profile whose
\* bonus list holds a return time bonus of value 0.
C13_Witness ==
    /\ ReturnTimeComputed /\ returnTimeOverrideSeconds = 0
    /\ \E i \in DOMAIN Bonuses[last.sessionID] :
          Bonuses[last.sessionID][i].type = "InsuranceReturnTime"
    /\ NoReturnTimeBonus(Bonuses[last.sessionID])
    /\ last.draws # << >>
    /\ last.draws[1] > traderMinReturnAsSeconds(TraderInsurance(last.traderId))
    /\ last.draws[1] < traderMaxReturnAsSeconds(TraderInsurance(last.traderId))
    /\ last.result = (last.now + last.draws[1]) * TimestampScale

(***************************************************************************)
(* getInsuredItemDetails called on its own                                 *)
(***************************************************************************)
\* pmcData.Inventory.equipment of the profiles the calls are made for.
InventoryRoots == {equipment, backpack}

\* The slotId values of the pre-raid items.
SlotIds == pocketSlots \cup {Absent, "hideout", "mod_magazine", "SecuredContainer"}

\* The upd values of the pre-raid items.
Upds ==
    { None, Some(EmptyUpd),
      Some([EmptyUpd EXCEPT !.SpawnedInSession = Some(TRUE)]),
      Some([EmptyUpd EXCEPT !.Repairable =
                Some([Durability |-> Some(50), MaxDurability |-> Some(100)])]) }

\* The pre-raid items the calls are made with.
PreRaidItems ==
    { Item(id, parentId, slotId, location, upd) :
        id \in ItemIds, parentId \in {equipment, backpack} \cup ItemIds,
        slotId \in SlotIds, location \in {None, Some(1)}, upd \in Upds }

\* An entry of offraidData.insurance: the client's report of an insured item.
ClientReports ==
    { [id |-> id, durability |-> durability, maxDurability |-> Some(80), hits |-> hits] :
        id \in ItemIds,
        durability \in {None, Some(0), Some(40)},
        hits \in {None, Some(0), Some(3)} }

\* offraidData.insurance: missing, empty, or holding one report.
ClientReportLists ==
    { None, Some(<< >>) } \cup { Some(<< r >>) : r \in ClientReports }

\* The pre-raid item after getInsuredItemDetails: the function writes to its
\* clone of the item only.
PreRaidItemAfterDetails(preRaidItem, itemToReturn) == preRaidItem

\* A call of getInsuredItemDetails that is about to be made. previous holds
\* the argument and the result of the call made before, if any.
DetailsCalls ==
    { [op |-> "none", sessionID |-> "p1", root |-> root, preRaidItem |-> it,
       preRaidItemAfter |-> it, reports |-> reports, result |-> it,
       previous |-> None, times |-> 0] :
        root \in InventoryRoots, it \in PreRaidItems, reports \in ClientReportLists }

InitDetails ==
    /\ insured = [p \in Players |-> None]
    /\ InsuredItems = [p \in Players |-> << >>]
    /\ insurance = [p \in Players |-> << >>]
    /\ dialogues = [p \in Players |-> << >>]
    /\ Bonuses = [p \in Players |-> << >>]
    /\ returnTimeOverrideSeconds = 0
    /\ last \in DetailsCalls
    /\ last.preRaidItem.parentId # last.preRaidItem._id

\* getInsuredItemDetails(pmcData, preRaidItem, offraidData.insurance?.find(...))
\* as storeLostGear calls it, first on a pre-raid item and then once more on
\* the item it returned.
GetInsuredItemDetails ==
    /\ last.op \in {"none", "getInsuredItemDetails"}
    /\ last.times < 2
    /\ LET preRaidItem == IF last.times = 0 THEN last.preRaidItem ELSE last.result
           itemToReturn == getInsuredItemDetails(last.root, preRaidItem,
                               FindClientReport(last.reports, preRaidItem._id))
       IN  last' = [last EXCEPT
                      !.op = "getInsuredItemDetails",
                      !.preRaidItem = preRaidItem,
                      !.preRaidItemAfter = PreRaidItemAfterDetails(preRaidItem, itemToReturn),
                      !.result = itemToReturn,
                      !.previous = IF last.times = 0 THEN None
                                   ELSE Some([preRaidItem |-> last.preRaidItem,
                                              result      |-> last.result]),
                      !.times = last.times + 1]
    /\ UNCHANGED << insured, InsuredItems, insurance, dialogues, Bonuses,
                    returnTimeOverrideSeconds >>

NextDetails == GetInsuredItemDetails

SpecDetails == InitDetails /\ [][NextDetails]_vars

\* getInsuredItemDetails has returned.
DetailsComputed == last.op = "getInsuredItemDetails"

\* The client's report of the item of the last call, if any.
ReportOfLast == FindClientReport(last.reports, last.preRaidItem._id)

(***************************************************************************)
(* C14                                                                     *)
(***************************************************************************)
\* C14: getInsuredItemDetails applied to its own output gives the slotId
\* and the location (present or not, and its value) of that output.
C14_NormalizerIsIdempotent ==
    (DetailsComputed /\ last.times = 2) =>
        /\ last.preRaidItem = last.previous[1].result
        /\ last.result.slotId = last.previous[1].result.slotId
        /\ last.result.location = last.previous[1].result.location

\* The normalizer ran twice on an item that was in a pocket with a location:
\* the first run moved it to the hideout slot and removed the location.
C14_Witness ==
    /\ DetailsComputed /\ last.times = 2
    /\ last.previous[1].preRaidItem.slotId \in pocketSlots
    /\ last.previous[1].preRaidItem.location # None
    /\ last.previous[1].result.slotId = "hideout"
    /\ last.result.slotId = "hideout"

(***************************************************************************)
(* C15                                                                     *)
(***************************************************************************)
\* C15: the returned item has slotId hideout when the pre-raid item has no
\* slotId, or a pocket slotId, or the inventory root as parent, and the
\* pre-raid slotId otherwise; it has no location when its slotId is hideout
\* and the pre-raid location otherwise; the pre-raid item is not modified.
C15_SlotAndLocation ==
    DetailsComputed =>
        LET pre == last.preRaidItem
            toHideout == \/ pre.slotId = Absent
                         \/ pre.slotId \in pocketSlots
                         \/ pre.parentId = last.root
        IN  /\ last.result.slotId = (IF toHideout THEN "hideout" ELSE pre.slotId)
            /\ last.result.location =
                  (IF last.result.slotId = "hideout" THEN None ELSE pre.location)
            /\ last.preRaidItemAfter = pre

\* A first call on an item mounted on the inventory root, with a location:
\* the returned item is in the hideout slot and has no location.
C15_Witness ==
    /\ DetailsComputed /\ last.times = 1
    /\ last.preRaidItem.slotId = "mod_magazine"
    /\ last.preRaidItem.location # None
    /\ last.preRaidItem.parentId = last.root
    /\ last.result.slotId = "hideout" /\ last.result.location = None

(***************************************************************************)
(* C16                                                                     *)
(***************************************************************************)
\* upd.Repairable of an item: None when the item has no upd or no Repairable.
RepairableOf(item) == IF item.upd = None THEN None ELSE item.upd[1].Repairable

\* The client reported a durability for the item of the last call.
ClientDurabilityReported == ReportOfLast # None /\ ReportOfLast[1].durability # None

\* C16 as stated: when the client reported a durability for the item, whatever
\* its value (0 included), the returned item's Repairable holds exactly the
\* reported Durability and MaxDurability; without client data the pre-raid
\* Repairable is kept.
C16_ClientDurabilityIsMerged ==
    DetailsComputed =>
        IF ClientDurabilityReported
        THEN RepairableOf(last.result) =
                Some([Durability    |-> ReportOfLast[1].durability,
                      MaxDurability |-> ReportOfLast[1].maxDurability])
        ELSE RepairableOf(last.result) = RepairableOf(last.preRaidItem)

\* C16 for the reports the code merges: a reported durability other than 0 is
\* written, with the reported maximum, to the returned item's Repairable;
\* without a reported durability the pre-raid Repairable is kept.
C16_NonZeroDurabilityIsMerged ==
    DetailsComputed =>
        /\ (ClientDurabilityReported /\ ReportOfLast[1].durability # Some(0))
            => RepairableOf(last.result) =
                  Some([Durability    |-> ReportOfLast[1].durability,
                        MaxDurability |-> ReportOfLast[1].maxDurability])
        /\ ~ClientDurabilityReported
            => RepairableOf(last.result) = RepairableOf(last.preRaidItem)

(***************************************************************************)
(* sendLostInsuranceMessage                                                *)
(***************************************************************************)
\* sendLostInsuranceMessage is called while the players hold fewer than
\* MaxMessages messages in all.
MaxMessages == 2

\* Traders.PRAPOR: the trader the message is sent from; the database holds
\* its dialogue.
PRAPOR == "X"

\* dialogueTemplates["insuranceFailed"] and ["insuranceFailedLabs"] of Prapor.
insuranceFailed == {"failed_1", "failed_2"}
insuranceFailedLabs == {"failedLabs_1", "failedLabs_2"}

\* A string is the sequence of its characters.
UpperLetters ==
    << "A", "B", "C", "D", "E", "F", "G", "H", "I", "J", "K", "L", "M",
       "N", "O", "P", "Q", "R", "S", "T", "U", "V", "W", "X", "Y", "Z" >>
LowerLetters ==
    << "a", "b", "c", "d", "e", "f", "g", "h", "i", "j", "k", "l", "m",
       "n", "o", "p", "q", "r", "s", "t", "u", "v", "w", "x", "y", "z" >>

laboratory == << "l", "a", "b", "o", "r", "a", "t", "o", "r", "y" >>

\* String.prototype.toLowerCase without the conversion.
toLowerCaseIdentity(s) == s

\* String.prototype.toLowerCase
toLowerCase(s) ==
    [i \in DOMAIN s |->
        IF \E k \in DOMAIN UpperLetters : UpperLetters[k] = s[i]
        THEN LowerLetters[CHOOSE k \in DOMAIN UpperLetters : UpperLetters[k] = s[i]]
        ELSE s[i]]

\* The location names the calls are made with.
LocationNames ==
    { << >>,
      laboratory,
      << "L", "a", "b", "o", "r", "a", "t", "o", "r", "y" >>,
      << "L", "A", "B", "O", "R", "A", "T", "O", "R", "Y" >>,
      << "l", "a", "b", "o", "r", "a", "t", "o", "r", "i" >>,
      << "l", "a", "b" >>,
      << "W", "o", "o", "d", "s" >> }

\* The locationName argument: omitted (None) or a name.
LocationArgs == { None } \cup { Some(n) : n \in LocationNames }

\* locationName = "": the value of the parameter for an argument.
LocationNameOf(arg) == IF arg = None THEN << >> ELSE arg[1]

\* The dialogue template set sendLostInsuranceMessage draws the template from.
LostInsuranceTemplates(locationName) ==
    IF toLowerCase(locationName) = laboratory
    THEN insuranceFailedLabs
    ELSE insuranceFailed

\* The state before a call of sendLostInsuranceMessage was made.
InitLostMessage ==
    /\ insured = [p \in Players |-> None]
    /\ InsuredItems = [p \in Players |-> << >>]
    /\ insurance = [p \in Players |-> << >>]
    /\ dialogues = [p \in Players |-> << >>]
    /\ Bonuses = [p \in Players |-> << >>]
    /\ returnTimeOverrideSeconds = 0
    /\ last = [op |-> "none", sessionID |-> "p1", locationName |-> None,
               before |-> [p \in Players |-> << >>]]

\* sendLostInsuranceMessage(sessionId, locationName): one message handed to
\* mailSendService.sendLocalisedNpcMessageToPlayer, kept with the messages
\* of the player.
SendLostInsuranceMessage(sessionId) ==
    /\ Len(dialogues["p1"]) + Len(dialogues["p2"]) < MaxMessages
    /\ \E arg \in LocationArgs :
       LET locationName == LocationNameOf(arg)
       IN  \E randomResponseId \in LostInsuranceTemplates(locationName) :
             /\ dialogues' = [dialogues EXCEPT ![sessionId] =
                    Append(@, [traderId   |-> PRAPOR,
                               type       |-> "NPC_TRADER",
                               templateId |-> randomResponseId,
                               items      |-> << >>,
                               systemData |-> [location |-> locationName]])]
             /\ last' = [op |-> "sendLostInsuranceMessage", sessionID |-> sessionId,
                         locationName |-> arg, before |-> dialogues]
    /\ UNCHANGED << insured, InsuredItems, insurance, Bonuses, returnTimeOverrideSeconds >>

NextLostMessage ==
    \/ SendLostInsuranceMessage("p1")
    \/ SendLostInsuranceMessage("p2")

SpecLostMessage == InitLostMessage /\ [][NextLostMessage]_vars

(***************************************************************************)
(* C17                                                                     *)
(***************************************************************************)
\* The upper case form of a lower case letter.
UpperOf(c) ==
    IF \E k \in DOMAIN LowerLetters : LowerLetters[k] = c
    THEN UpperLetters[CHOOSE k \in DOMAIN LowerLetters : LowerLetters[k] = c]
    ELSE c

\* name is the lower case word up to the case of its letters.
EqualsIgnoringCase(name, word) ==
    /\ Len(name) = Len(word)
    /\ \A i \in DOMAIN word : name[i] \in { word[i], UpperOf(word[i]) }

\* sendLostInsuranceMessage has returned.
LostMessageSent == last.op = "sendLostInsuranceMessage"

\* C17: a call of sendLostInsuranceMessage stores exactly one message for the
\* player, with no attached items; its template is one of insuranceFailedLabs
\* exactly when locationName is "laboratory" up to case, and one of
\* insuranceFailed for every other locationName, the default "" included.
C17_OneMessageByLocation ==
    LostMessageSent =>
        LET p == last.sessionID
            name == LocationNameOf(last.locationName)
            msgs == dialogues[p]
        IN  /\ Len(msgs) = Len(last.before[p]) + 1
            /\ SubSeq(msgs, 1, Len(last.before[p])) = last.before[p]
            /\ \A q \in Players \ {p} : dialogues[q] = last.before[q]
            /\ msgs[Len(msgs)].items = << >>
            /\ msgs[Len(msgs)].traderId = PRAPOR
            /\ IF EqualsIgnoringCase(name, laboratory)
               THEN msgs[Len(msgs)].templateId \in insuranceFailedLabs
               ELSE msgs[Len(msgs)].templateId \in insuranceFailed

\* The message was sent for a location named Laboratory with a capital, and
\* carries a labs template.
C17_Witness ==
    /\ LostMessageSent
    /\ last.locationName # None
    /\ last.locationName[1] # laboratory
    /\ EqualsIgnoringCase(last.locationName[1], laboratory)
    /\ dialogues[last.sessionID][Len(dialogues[last.sessionID])].templateId
          \in insuranceFailedLabs

(***************************************************************************)
(* The states the queries of the service are made in                       *)
(***************************************************************************)
\* The registry and the references of p1 left by one storeLostGear called
\* on a new service for a profile that insured every item.
ResolvedStates ==
    { storeLostGearResult([p \in Players |-> None], refs, << >>, None, gear, "p1", died) :
        refs \in RefLists(ItemIds),
        gear \in UNION { GearLists(ids) : ids \in SUBSET ItemIds },
        died \in BOOLEAN }

\* The state of a service and of the profiles when a query is made: as
\* constructed and after a storeLostGear, the references that one left.
InitQueried ==
    /\ \E st \in ResolvedStates :
          /\ insured = st.ins
          /\ InsuredItems = [p \in Players |-> IF p = "p1" THEN st.refs ELSE << >>]
    /\ insurance = [p \in Players |-> << >>]
    /\ dialogues = [p \in Players |-> << >>]
    /\ Bonuses = [p \in Players |-> << >>]
    /\ returnTimeOverrideSeconds = 0

\* The registry and the profiles, as a query may change them.
ServiceState ==
    [insured |-> insured, InsuredItems |-> InsuredItems,
     insurance |-> insurance, dialogues |-> dialogues]

(***************************************************************************)
(* getPremium                                                              *)
(***************************************************************************)
\* Multipliers are kept in hundredths: 30 is 0.3.
MultiplierScale == 100

\* The multiplier getPremium falls back to: 0.3.
defaultInsuranceMultiplier == 30

\* itemHelper.getStaticItemPrice(inventoryItem._tpl), by item template.
handbookPrices == << 0, 5, 15, 333, 1000, 1001, 1999 >>
Templates == DOMAIN handbookPrices
getStaticItemPrice(tpl) == handbookPrices[tpl]

\* insuranceConfig.insuranceMultiplier[traderId]: not configured, or a value.
ConfiguredMultipliers == { None, Some(0), Some(16), Some(25), Some(30) }

\* traderHelper.getLoyaltyLevel(traderId, pmcData).insurance_price_coef:
\* missing, or a percentage.
LoyaltyCoefs == { None, Some(-5), Some(0), Some(10), Some(33), Some(50) }

\* Math.round of num/den for den > 0: the nearest integer, halves upwards.
MathRound(num, den) == (2 * num + den) \div (2 * den)

\* getPremium for the configured multiplier of the trader, the handbook price
\* of the item and the loyalty coefficient of the profile with the trader:
\* the price, and whether the warning was logged.
getPremium(insuranceMultiplier, staticItemPrice, coef) ==
    LET missing == ~Truthy(insuranceMultiplier)
        multiplier == IF missing THEN defaultInsuranceMultiplier ELSE insuranceMultiplier[1]
    IN  [price |-> IF coef # None /\ coef[1] > 0
                   THEN MathRound(staticItemPrice * multiplier * (100 - coef[1]),
                                  MultiplierScale * 100)
                   ELSE MathRound(staticItemPrice * multiplier, MultiplierScale),
         warned |-> missing]

\* A call of getPremium that is about to be made.
PremiumCalls ==
    { [op |-> "none", sessionID |-> "p1", traderId |-> t, tpl |-> tpl,
       insuranceMultiplier |-> m, coef |-> c, result |-> 0, warned |-> FALSE] :
        t \in Traders, tpl \in Templates, m \in ConfiguredMultipliers, c \in LoyaltyCoefs }

InitPremium ==
    /\ InitQueried
    /\ \E call \in PremiumCalls : last = [call EXCEPT !.op = "none"] @@ [before |-> ServiceState]

\* getPremium(pmcData of sessionID, inventoryItem, traderId)
GetPremium(sessionID) ==
    /\ last.op = "none"
    /\ last.sessionID = sessionID
    /\ LET res == getPremium(last.insuranceMultiplier, getStaticItemPrice(last.tpl), last.coef)
       IN  last' = [last EXCEPT !.op = "getPremium", !.result = res.price,
                                !.warned = res.warned]
    /\ UNCHANGED << insured, InsuredItems, insurance, dialogues, Bonuses,
                    returnTimeOverrideSeconds >>

NextPremium == GetPremium("p1")

SpecPremium == InitPremium /\ [][NextPremium]_vars

\* getPremium has returned.
PremiumComputed == last.op = "getPremium"

\* r is num/den rounded to the nearest integer, a half rounded upwards.
IsRounded(r, num, den) ==
    /\ 2 * den * r - den <= 2 * num
    /\ 2 * num < 2 * den * r + den

\* multiplier(counterparty) of the contract: the configured value, or 0.3
\* when none is configured.
ContractMultiplier(configured) ==
    IF configured = None THEN defaultInsuranceMultiplier ELSE configured[1]

\* The price of the contract for a multiplier in hundredths.
IsContractPrice(r, basePrice, multiplier, coef) ==
    IF coef # None /\ coef[1] > 0
    THEN IsRounded(r, basePrice * multiplier * (100 - coef[1]), MultiplierScale * 100)
    ELSE IsRounded(r, basePrice * multiplier, MultiplierScale)

(***************************************************************************)
(* C18                                                                     *)
(***************************************************************************)
\* C18 as stated: getPremium returns round(basePrice * multiplier * (1 -
\* discount/100)) for a positive loyalty discount and round(basePrice *
\* multiplier) for a discount that is zero, negative or missing, multiplier
\* being the one of the counterparty; and it changes neither the registry
\* nor the profiles.
C18_PremiumFormula ==
    PremiumComputed =>
        /\ IsContractPrice(last.result, getStaticItemPrice(last.tpl),
                           ContractMultiplier(last.insuranceMultiplier), last.coef)
        /\ ServiceState = last.before

\* C18 for the multipliers other than 0: the formula holds, basePrice 1000
\* with multiplier 0.3 and discount 10 gives 270, and neither the registry
\* nor the profiles change.
C18_PremiumFormula_NonZero ==
    PremiumComputed =>
        /\ last.insuranceMultiplier # Some(0)
            => IsContractPrice(last.result, getStaticItemPrice(last.tpl),
                               ContractMultiplier(last.insuranceMultiplier), last.coef)
        /\ (getStaticItemPrice(last.tpl) = 1000 /\ last.insuranceMultiplier = Some(30)
                /\ last.coef = Some(10))
            => last.result = 270
        /\ ServiceState = last.before

(***************************************************************************)
(* C19                                                                     *)
(***************************************************************************)
\* C19 as stated: without a configured multiplier getPremium uses 0.3, logs
\* a warning and returns a price; with a configured multiplier it uses that
\* value and logs no warning.
C19_DefaultMultiplier ==
    PremiumComputed =>
        IF last.insuranceMultiplier = None
        THEN /\ last.warned
             /\ IsContractPrice(last.result, getStaticItemPrice(last.tpl),
                                defaultInsuranceMultiplier, last.coef)
        ELSE /\ ~last.warned
             /\ IsContractPrice(last.result, getStaticItemPrice(last.tpl),
                                last.insuranceMultiplier[1], last.coef)

\* C19 for the multipliers other than 0.
C19_DefaultMultiplier_NonZero ==
    (PremiumComputed /\ last.insuranceMultiplier # Some(0)) =>
        IF last.insuranceMultiplier = None
        THEN /\ last.warned
             /\ IsContractPrice(last.result, getStaticItemPrice(last.tpl),
                                defaultInsuranceMultiplier, last.coef)
        ELSE /\ ~last.warned
             /\ IsContractPrice(last.result, getStaticItemPrice(last.tpl),
                                last.insuranceMultiplier[1], last.coef)

(***************************************************************************)
(* The read accessors of the registry                                      *)
(***************************************************************************)
\* No accessor was called yet.
NoQuery ==
    [op |-> "none", sessionID |-> "p1", traderId |-> "X", threw |-> FALSE,
     exists |-> FALSE, entry |-> None, items |-> None, before |-> ServiceState]

InitAccessors ==
    /\ InitQueried
    /\ last = NoQuery

\* insuranceExists(sessionId)
InsuranceExists(sessionId) ==
    /\ last' = [NoQuery EXCEPT !.op = "insuranceExists", !.sessionID = sessionId,
                               !.exists = insuranceExists(insured, sessionId)]
    /\ UNCHANGED << insured, InsuredItems, insurance, dialogues, Bonuses,
                    returnTimeOverrideSeconds >>

\* getInsurance(sessionId)
GetInsurance(sessionId) ==
    /\ last' = [NoQuery EXCEPT !.op = "getInsurance", !.sessionID = sessionId,
                               !.entry = getInsurance(insured, sessionId)]
    /\ UNCHANGED << insured, InsuredItems, insurance, dialogues, Bonuses,
                    returnTimeOverrideSeconds >>

\* getInsuranceItems(sessionId, traderId): this.insured[sessionId][traderId]
\* throws a TypeError when this.insured[sessionId] is undefined.
GetInsuranceItems(sessionId, traderId) ==
    /\ last' = [NoQuery EXCEPT
                   !.op = "getInsuranceItems", !.sessionID = sessionId,
                   !.traderId = traderId,
                   !.threw = ~insuranceExists(insured, sessionId),
                   !.items = IF insuranceExists(insured, sessionId)
                             THEN getInsuranceItems(insured, sessionId, traderId)
                             ELSE None]
    /\ UNCHANGED << insured, InsuredItems, insurance, dialogues, Bonuses,
                    returnTimeOverrideSeconds >>

NextAccessors ==
    \/ \E p \in Players : InsuranceExists(p)
    \/ \E p \in Players : GetInsurance(p)
    \/ \E p \in Players, t \in Traders : GetInsuranceItems(p, t)

SpecAccessors == InitAccessors /\ [][NextAccessors]_vars

\* A read accessor was called.
Queried == last.op \in {"insuranceExists", "getInsurance", "getInsuranceItems"}

(***************************************************************************)
(* C20                                                                     *)
(***************************************************************************)
\* C20 as stated: insuranceExists, getInsurance and getInsuranceItems, called
\* with any player id and trader id, a player without registry entry
\* included, complete without error and leave the registry unchanged.
C20_AccessorsAreSafe ==
    Queried => (~last.threw /\ insured = last.before.insured)

\* C20 without the failing call: no accessor changes the registry or the
\* profiles; insuranceExists and getInsurance complete for every player, and
\* getInsuranceItems completes for every player that has a registry entry.
C20_AccessorsAreSafe_WithEntry ==
    Queried =>
        /\ ServiceState = last.before
        /\ last.threw =>
              (last.op = "getInsuranceItems" /\ insured[last.sessionID] = None)
        /\ last.op = "insuranceExists" =>
              (last.exists <=> insured[last.sessionID] # None)
        /\ last.op = "getInsurance" => last.entry = insured[last.sessionID]

(***************************************************************************)
(* C21                                                                     *)
(***************************************************************************)
\* The value of the profile's first InsuranceReturnTime bonus, 0 without one.
ReturnTimeBonusValue(bonuses) ==
    LET hits == { i \in DOMAIN bonuses : bonuses[i].type = "InsuranceReturnTime" }
    IN  IF hits = {} THEN 0
        ELSE bonuses[CHOOSE i \in hits : \A j \in hits : i <= j].value

\* The absolute value of a bonus value.
Magnitude(b) == IF b >= 0 THEN b ELSE 0 - b

\* C21: with the override off and a bonus of value b the returned timestamp
\* is now + r * (1 - |b|/100), r being the draw, a value of the trader's
\* range; it is a function of |b|, and for |b| <= 100 it lies between now
\* and now + max_return_hour*3600.
C21_BonusScalesTheDraw ==
    (ReturnTimeComputed /\ returnTimeOverrideSeconds = 0) =>
        LET b == ReturnTimeBonusValue(Bonuses[last.sessionID])
            trader == TraderInsurance(last.traderId)
            r == last.draws[1]
        IN  /\ Len(last.draws) = 1
            /\ traderMinReturnAsSeconds(trader) <= r
            /\ r <= traderMaxReturnAsSeconds(trader)
            /\ last.result = last.now * TimestampScale + r * (TimestampScale - Magnitude(b))
            /\ Magnitude(b) <= 100 =>
                  /\ last.now * TimestampScale <= last.result
                  /\ last.result
                        <= (last.now + trader.max_return_hour * oneHourAsSeconds)
                             * TimestampScale

\* A negative bonus shortened a draw taken inside the trader's range.
C21_Witness ==
    /\ ReturnTimeComputed /\ returnTimeOverrideSeconds = 0
    /\ ReturnTimeBonusValue(Bonuses[last.sessionID]) = -20
    /\ last.draws # << >>
    /\ last.draws[1] > traderMinReturnAsSeconds(TraderInsurance(last.traderId))
    /\ last.result = last.now * TimestampScale + last.draws[1] * 80
    /\ last.now > 0

(***************************************************************************)
(* C22                                                                     *)
(***************************************************************************)
\* C22: storeLostGear leaves in InsuredItems, in their order, exactly the
\* references that did not qualify (stale, in an excluded slot, or kept by a
\* surviving player); the references it removes are those of the items it
\* added to the registry.
C22_UnqualifiedRefsAreKept ==
    Stored =>
        /\ InsuredItems[last.sessionID]
              = SeqFilter(last.before.InsuredItems,
                          { r \in RefsBefore : ~QualifiedRef(r) })
        /\ \A r \in RefsBefore :
              IF r \in Range(InsuredItems[last.sessionID])
              THEN AddedNowhere(r.itemId)
              ELSE AddedTo(r.itemId, r.tid)

\* A storeLostGear for a player who died removed the reference of one item
\* and kept the reference of the other, an item in an excluded slot.
C22_Witness ==
    /\ Stored /\ last.playerDied
    /\ Len(last.before.InsuredItems) = 2
    /\ Len(InsuredItems[last.sessionID]) = 1
    /\ \E r \in Range(InsuredItems[last.sessionID]) :
          /\ InPreRaidGear(r.itemId)
          /\ PreRaidSlot(r.itemId) \in blacklistedEquipment
    /\ \E r \in RefsBefore : AddedTo(r.itemId, r.tid)

(***************************************************************************)
(* Two players                                                             *)
(***************************************************************************)
\* Two profiles that each insured one item of their own, with any trader.
InitPlayers ==
    /\ insured = [p \in Players |-> None]
    /\ InsuredItems \in [Players -> UNION { RefLists({i}) : i \in ItemIds }]
    /\ InsuredItems["p1"][1].itemId = 1
    /\ InsuredItems["p2"][1].itemId = NumItems
    /\ insurance = [p \in Players |-> << >>]
    /\ dialogues = [p \in Players |-> << >>]
    /\ Bonuses = [p \in Players |-> IF p = "p1" THEN ReturnTimeBonus ELSE << >>]
    /\ returnTimeOverrideSeconds \in {0, OverrideSeconds}
    /\ last = NoCall

\* The raid exits of the two players, in any interleaving of whole calls.
NextPlayers ==
    \/ StoreLostGear("p1")
    \/ SendInsuredItems("p1")
    \/ StoreLostGear("p2")
    \/ SendInsuredItems("p2")

SpecPlayers == InitPlayers /\ [][NextPlayers]_vars

(***************************************************************************)
(* C23                                                                     *)
(***************************************************************************)
\* C23: a storeLostGear or sendInsuredItems of a player leaves the registry
\* entry, the InsuredItems and the insurance list of every other player as
\* they were, in every interleaving of the calls of the two players.
C23_PlayersAreIsolated ==
    [][\A q \in Players :
          q # last'.sessionID =>
              /\ insured'[q] = insured[q]
              /\ InsuredItems'[q] = InsuredItems[q]
              /\ insurance'[q] = insurance[q]
              /\ dialogues'[q] = dialogues[q]]_vars

\* A sendInsuredItems of one player returned with a new record, and cleared
\* that player's registry entry, while the other player held a bucket with
\* a lost item that was not flushed yet.
C23_Witness ==
    /\ Returned /\ NewRecords # << >>
    /\ \E q \in Players \ {last.sessionID} :
          /\ BucketTraders(insured[q]) # {}
          /\ InsuredItems[q] = << >>
          /\ insurance[q] = << >>

(***************************************************************************)
(* C24                                                                     *)
(***************************************************************************)
\* The items of a record appended by the last call are the items of the
\* bucket of its trader, each one without parent among them in slot hideout
\* and without location, each other one with the slotId and the location it
\* had in the bucket before the call.
RootsAreInHideout(rec) ==
    LET items == rec.items
        bucket == ItemsOf(last.before.insured, rec.traderId)
    IN  /\ Len(items) = Len(bucket)
        /\ \A j \in DOMAIN items :
              /\ items[j]._id = bucket[j]._id
              /\ IF items[j].parentId \in IdsOf(items)
                 THEN /\ items[j].slotId = bucket[j].slotId
                      /\ items[j].location = bucket[j].location
                 ELSE /\ items[j].slotId = "hideout"
                      /\ items[j].location = None

WasIdle == BucketTraders(last.before.insured) = {}

\* A sendInsuredItems for an idle player returns, appends no record, stores
\* no message and leaves the player with an empty registry entry.
IdleSendIsNoop ==
    (Sent /\ WasIdle) =>
        /\ ~last.threw
        /\ NewRecords = << >>
        /\ NewMessages = << >>
        /\ insured[last.sessionID] = Some(<< >>)

\* This step is a sendInsuredItems that follows a sendInsuredItems of the
\* same player.
SecondSend ==
    /\ last.op = "sendInsuredItems"
    /\ last'.op = "sendInsuredItems"
    /\ last'.sessionID = last.sessionID

\* The step appends no record and stores no message.
DeliversNothing ==
    /\ insurance' = insurance
    /\ dialogues' = dialogues

\* C25 as stated: sendInsuredItems for an idle player completes without
\* error, appends no record, sends no message and leaves the registry of
\* the player empty; and of two consecutive sendInsuredItems calls the
\* second delivers nothing, each registered item being delivered once.
C25_IdleSendIsNoop ==
    /\ []IdleSendIsNoop
    /\ [][SecondSend => DeliversNothing]_vars

\* C25 for a first call that returned: the sendInsuredItems for an idle
\* player is a no-op, and a sendInsuredItems that follows one that returned
\* delivers nothing.
C25_IdleSendIsNoop_Returned ==
    /\ []IdleSendIsNoop
    /\ [][(SecondSend /\ ~last.threw) => DeliversNothing]_vars

====
